---- MODULE Spec2Model ----
(***************************************************************************)
(* GitHub PPT Browser (streamlit_github_ppt_browser.py): the URL parser,   *)
(* the extension filter, the cached single-level listing and the recursive *)
(* stack-based walk over the GitHub contents API, with the error handlers  *)
(* of the main listing logic.                                              *)
(*                                                                         *)
(* Text is modelled as a sequence of one-character strings, so that lower- *)
(* casing, suffix tests, splitting and joining are computed, not assumed.  *)
(***************************************************************************)
EXTENDS Integers, Sequences, FiniteSets, TLC

VARIABLES
    listing,    \* remote: directory path -> the entries the contents API lists for it
    cache,      \* st.cache_data store of list_ppt_in_github: path -> stored result
    pc,         \* position of the script run: idle, walking, returned, error
    mode,       \* which listing the run performs: none, list, walk
    start,      \* the path argument of the listing
    stack,      \* walk_and_collect_ppts: stack
    visited,    \* walk_and_collect_ppts: visited_dirs
    collected,  \* walk_and_collect_ppts: collected
    log,        \* the requests this run has issued: <<[path, status], ...>>
    resp,       \* the body of the last successful response of this run
    files,      \* main: files
    shown,      \* main: which st.info / st.success / st.error message was shown
    show_all_levels, \* the "Search recursively" checkbox of the session
    first,      \* history: path -> what the first successful single-level listing returned
    url,        \* parse_github_dir_url: the argument
    given,      \* the fields the URL was written from
    parsed      \* parse_github_dir_url: the value returned

vars == <<listing, cache, pc, mode, start, stack, visited, collected, log, resp,
          files, shown, show_all_levels, first, url, given, parsed>>

sessionvars == <<show_all_levels, url, given, parsed>>

----------------------------------------------------------------------------
(* Bounds *)

\* total number of entries the remote listings hold
MaxEntries == 3

\* longest branch name and path segment of a URL, in characters
MaxFieldLen == 2

\* most path segments after the branch in a URL
MaxSegs == 2

----------------------------------------------------------------------------
(* Text *)

UpperCase == <<"A","B","C","D","E","F","G","H","I","J","K","L","M",
               "N","O","P","Q","R","S","T","U","V","W","X","Y","Z">>
LowerCase == <<"a","b","c","d","e","f","g","h","i","j","k","l","m",
               "n","o","p","q","r","s","t","u","v","w","x","y","z">>

\* str.lower() on one character
LowerChar(c) ==
    IF \E i \in 1..Len(UpperCase) : UpperCase[i] = c
    THEN LowerCase[CHOOSE i \in 1..Len(UpperCase) : UpperCase[i] = c]
    ELSE c

\* str.lower()
StrLower(s) == [i \in 1..Len(s) |-> LowerChar(s[i])]

\* str.endswith(suffix)
EndsWith(s, suf) ==
    /\ Len(s) >= Len(suf)
    /\ SubSeq(s, Len(s) - Len(suf) + 1, Len(s)) = suf

PPT_EXTS == << <<".","p","p","t">>, <<".","p","p","t","x">>, <<".","p","p","t","m">>,
               <<".","p","o","t">>, <<".","p","o","t","x">>, <<".","p","p","s">>,
               <<".","p","p","s","x">> >>

\* mutant: "in" instead of endswith, an extension anywhere in the name
IsPptName_Contains(name) ==
    \E i \in 1..Len(PPT_EXTS) : \E k \in 1..Len(name) :
        /\ k + Len(PPT_EXTS[i]) - 1 <= Len(name)
        /\ SubSeq(StrLower(name), k, k + Len(PPT_EXTS[i]) - 1) = PPT_EXTS[i]

\* name.lower().endswith(PPT_EXTS)
IsPptName(name) ==
    \E i \in 1..Len(PPT_EXTS) : EndsWith(StrLower(name), PPT_EXTS[i])

----------------------------------------------------------------------------
(* The remote: the entries the contents API can return *)

Dirs == {"", "sub", "sub/old.ppt"}

DirEntry(name, path) ==
    [type |-> "dir", name |-> name, path |-> path, size |-> 0,
     download_url |-> "null", html_url |-> path]

FileEntry(type, name, path, size) ==
    [type |-> type, name |-> name, path |-> path, size |-> size,
     download_url |-> path, html_url |-> path]

DirEntries ==
    { DirEntry(<<>>, ""),
      DirEntry(<<"s","u","b">>, "sub"),
      DirEntry(<<"o","l","d",".","p","p","t">>, "sub/old.ppt") }

TalkPpt ==
    FileEntry("file", <<"t","a","l","k",".","p","p","t">>, "sub/old.ppt/talk.ppt", 1)
DeckUpper ==
    FileEntry("file", <<"D","E","C","K",".","P","P","T","X">>, "sub/old.ppt/DECK.PPTX", 2)
DeckXX ==
    FileEntry("file", <<"d","e","c","k",".","p","p","t","x","x">>, "deck.pptxx", 3)
LinkPps ==
    FileEntry("symlink", <<"l","i","n","k",".","p","p","s">>, "sub/link.pps", 4)

\* the directory a file's path puts it in
Parent(e) ==
    IF e \in {TalkPpt, DeckUpper} THEN "sub/old.ppt"
    ELSE IF e = LinkPps THEN "sub"
    ELSE ""

FileEntries == {TalkPpt, DeckUpper, DeckXX, LinkPps}

Entries == DirEntries \cup FileEntries

\* a path of the repository that is a file: the API answers it with one object
FilePaths == {"sub/old.ppt/talk.ppt"}

Paths == Dirs \cup FilePaths

Statuses == {200, 404, 403, 500}

NoResult == "NoResult"
NoData == [kind |-> "none", value |-> <<>>]
NoFiles == "NoFiles"

\* resp.json(): a list for a directory, one object (a dict) for a file
Json(p) ==
    IF p \in Dirs THEN [kind |-> "list", value |-> listing[p]]
    ELSE [kind |-> "dict", value |-> CHOOSE e \in FileEntries : e.path = p]

\* if isinstance(data, dict): data = [data]
AsList(data) == IF data.kind = "dict" THEN <<data.value>> ELSE data.value

FileRecord(e) ==
    [name |-> e.name, path |-> e.path, size |-> e.size,
     download_url |-> e.download_url, html_url |-> e.html_url]

\* mutant: result.insert(0, ...) instead of result.append(...)
RECURSIVE filter_ppt_files_Reversed(_)
filter_ppt_files_Reversed(items) ==
    IF items = <<>> THEN <<>>
    ELSE LET it == Head(items)
             rest == filter_ppt_files_Reversed(Tail(items))
         IN IF it.type = "file" /\ IsPptName(it.name)
            THEN rest \o <<FileRecord(it)>> ELSE rest

RECURSIVE filter_ppt_files(_)
filter_ppt_files(items) ==
    IF items = <<>> THEN <<>>
    ELSE LET it == Head(items)
             rest == filter_ppt_files(Tail(items))
         IN IF it.type # "file" THEN rest
            ELSE IF IsPptName(it.name) THEN <<FileRecord(it)>> \o rest
            ELSE rest

TotalEntries == Len(listing[""]) + Len(listing["sub"]) + Len(listing["sub/old.ppt"])

InSeq(x, s) == \E i \in 1..Len(s) : s[i] = x

----------------------------------------------------------------------------
(* main: the except clauses of the listing logic *)

ErrorShown(status) ==
    IF status = 404 THEN "err_notfound"
    ELSE IF status = 403 THEN "err_forbidden"
    ELSE "err_api"

ResultShown(fs) == IF fs = <<>> THEN "info_empty" ELSE "success"

\* mutant: only server errors raise
Raises_ServerOnly(status) == status >= 500 /\ status < 600

\* resp.raise_for_status()
Raises(status) == status >= 400 /\ status < 600

----------------------------------------------------------------------------
(* walk_and_collect_ppts: the body of "for entry in data" *)

WalkState(st, vis, col) == [stack |-> st, visited |-> vis, collected |-> col]

\* mutant: dir entries are not pushed, the walk never descends
OnEntry_NoDescend(entry, w) ==
    IF entry.type = "file" /\ IsPptName(entry.name)
    THEN WalkState(w.stack, w.visited, Append(w.collected, FileRecord(entry)))
    ELSE w

\* mutant: dir entries are pushed without the visited_dirs test
OnEntry_NoVisitedCheck(entry, w) ==
    IF entry.type = "dir"
    THEN WalkState(Append(w.stack, entry.path), w.visited \cup {entry.path},
                   w.collected)
    ELSE IF entry.type = "file" /\ IsPptName(entry.name)
    THEN WalkState(w.stack, w.visited, Append(w.collected, FileRecord(entry)))
    ELSE w

OnEntry(entry, w) ==
    IF entry.type = "dir"
    THEN IF entry.path \notin w.visited
         THEN WalkState(Append(w.stack, entry.path), w.visited \cup {entry.path},
                        w.collected)
         ELSE w
    ELSE IF entry.type = "file"
    THEN IF IsPptName(entry.name)
         THEN WalkState(w.stack, w.visited, Append(w.collected, FileRecord(entry)))
         ELSE w
    ELSE w

RECURSIVE ForEntries(_, _)
ForEntries(data, w) ==
    IF data = <<>> THEN w
    ELSE ForEntries(Tail(data), OnEntry(Head(data), w))

\* mutant: no test for 404, it reaches raise_for_status
SkipsMissing_Never(status) == FALSE

\* the walk's treatment of a 404: "continue"
SkipsMissing(status) == status = 404


----------------------------------------------------------------------------
(* parse_github_dir_url *)

Digits == {"0","1","2","3","4","5","6","7","8","9"}
Letters == {UpperCase[i] : i \in 1..Len(UpperCase)} \cup
           {LowerCase[i] : i \in 1..Len(LowerCase)}

\* urllib.parse.scheme_chars
SchemeChars == Letters \cup Digits \cup {"+", "-", "."}

\* str.find(c, from): the first index >= from holding a character of cs, 0 if none
FindAny(s, cs, from) ==
    IF \E i \in from..Len(s) : s[i] \in cs
    THEN CHOOSE i \in from..Len(s) :
            s[i] \in cs /\ \A j \in from..(i - 1) : s[j] \notin cs
    ELSE 0

\* str.rfind(c): the last index holding c, 0 if none
RFind(s, c) ==
    IF \E i \in 1..Len(s) : s[i] = c
    THEN CHOOSE i \in 1..Len(s) : s[i] = c /\ \A j \in (i + 1)..Len(s) : s[j] # c
    ELSE 0

From(s, i) == SubSeq(s, i, Len(s))
Upto(s, i) == SubSeq(s, 1, i)

\* urlsplit: the scheme, then what follows "scheme:"
SplitScheme(u) ==
    LET i == FindAny(u, {":"}, 1)
    IN IF i > 1 /\ u[1] \in Letters /\ \A j \in 1..(i - 1) : u[j] \in SchemeChars
       THEN [scheme |-> StrLower(Upto(u, i - 1)), rest |-> From(u, i + 1)]
       ELSE [scheme |-> <<>>, rest |-> u]

\* urlsplit: _splitnetloc, after a leading "//"
SplitNetloc(r) ==
    IF Len(r) >= 2 /\ r[1] = "/" /\ r[2] = "/"
    THEN LET d == FindAny(r, {"/", "?", "#"}, 3)
         IN IF d = 0 THEN [netloc |-> From(r, 3), rest |-> <<>>]
            ELSE [netloc |-> SubSeq(r, 3, d - 1), rest |-> From(r, d)]
    ELSE [netloc |-> <<>>, rest |-> r]

\* urlsplit: the fragment after "#" and the query after "?" are cut off
CutAt(r, c) ==
    LET i == FindAny(r, {c}, 1) IN IF i = 0 THEN r ELSE Upto(r, i - 1)

\* urlparse: _splitparams, the part of the last segment before ";"
SplitParams(r) ==
    IF FindAny(r, {";"}, 1) = 0 THEN r
    ELSE LET sl == RFind(r, "/")
             i == IF sl > 0 THEN FindAny(r, {";"}, sl) ELSE FindAny(r, {";"}, 1)
         IN IF i = 0 THEN r ELSE Upto(r, i - 1)

\* urlparse(url): netloc and path
urlparse(u) ==
    LET s == SplitScheme(u)
        n == SplitNetloc(s.rest)
        p == CutAt(CutAt(n.rest, "#"), "?")
    IN [scheme |-> s.scheme, netloc |-> n.netloc, path |-> SplitParams(p)]

\* [p for p in path.split("/") if p]
RECURSIVE SplitNonEmpty(_, _)
SplitNonEmpty(s, c) ==
    LET i == FindAny(s, {c}, 1)
    IN IF s = <<>> THEN <<>>
       ELSE IF i = 0 THEN <<s>>
       ELSE IF i = 1 THEN SplitNonEmpty(From(s, 2), c)
       ELSE <<Upto(s, i - 1)>> \o SplitNonEmpty(From(s, i + 1), c)

\* "/".join(parts)
RECURSIVE Join(_, _)
Join(parts, c) ==
    IF parts = <<>> THEN <<>>
    ELSE IF Len(parts) = 1 THEN parts[1]
    ELSE parts[1] \o <<c>> \o Join(Tail(parts), c)

GithubCom == <<"g","i","t","h","u","b",".","c","o","m">>
WwwGithubCom == <<"w","w","w",".">> \o GithubCom
GitlabCom == <<"g","i","t","l","a","b",".","c","o","m">>
Main == <<"m","a","i","n">>
Tree == <<"t","r","e","e">>
Https == <<"h","t","t","p","s">>

parse_github_dir_url(u) ==
    LET parsed_ == urlparse(u)
        parts == SplitNonEmpty(parsed_.path, "/")
    IN IF parsed_.netloc \notin {GithubCom, WwwGithubCom} THEN "None"
       ELSE IF Len(parts) < 2 THEN "None"
       ELSE LET hasTree == Len(parts) >= 3 /\ parts[3] = Tree
                branch == IF hasTree /\ Len(parts) >= 4 THEN parts[4] ELSE Main
                path == IF hasTree /\ Len(parts) >= 5
                        THEN Join(From(parts, 5), "/") ELSE <<>>
            IN <<parts[1], parts[2], branch, path>>

\* the characters URLs are written from
FieldChars == {"a", "b", ";"}

Strings(n) == UNION { [1..k -> FieldChars] : k \in 1..n }

Hosts == {GithubCom, WwwGithubCom, GitlabCom}

\* https://{host}/{owner}/{repo}/tree/{branch}/{path...}
TreeUrl(g) ==
    Https \o <<":", "/", "/">> \o g.host \o <<"/">> \o g.owner \o <<"/">> \o g.repo
      \o <<"/">> \o Tree \o <<"/">> \o g.branch \o <<"/">> \o Join(g.segs, "/")

Given ==
    [host : Hosts, owner : Strings(1), repo : Strings(1),
     branch : Strings(MaxFieldLen),
     segs : UNION { [1..k -> Strings(MaxFieldLen)] : k \in 1..MaxSegs }]

----------------------------------------------------------------------------
(* Actions *)

Init ==
    /\ listing = [d \in Dirs |-> <<>>]
    /\ cache = [p \in Paths |-> NoResult]
    /\ pc = "idle"
    /\ mode = "none"
    /\ start = ""
    /\ stack = <<>>
    /\ visited = {}
    /\ collected = <<>>
    /\ log = <<>>
    /\ resp = NoData
    /\ files = NoFiles
    /\ shown = "none"
    /\ show_all_levels \in BOOLEAN
    /\ first = [p \in Paths |-> NoResult]
    /\ url = <<>>
    /\ given = <<>>
    /\ parsed = "NotYet"

\* the repository changes between two runs of the script
RemoteAdd(d, e) ==
    /\ pc = "idle"
    /\ TotalEntries < MaxEntries
    /\ ~InSeq(e, listing[d])
    /\ e \in FileEntries => Parent(e) = d
    /\ listing' = [listing EXCEPT ![d] = Append(@, e)]
    /\ UNCHANGED <<cache, pc, mode, start, stack, visited, collected, log, resp,
                   files, shown>>
    /\ UNCHANGED <<first, sessionvars>>

\* mutant: the cache key leaves out the path
CacheLookup_AnyKey(p) ==
    IF \E q \in Paths : cache[q] # NoResult
    THEN cache[CHOOSE q \in Paths : cache[q] # NoResult]
    ELSE NoResult

\* @st.cache_data: the stored result of a call with these arguments, if any
CacheLookup(p) == cache[p]

\* main, show_all_levels unchecked: files = list_ppt_in_github(...)
ListCall(p) ==
    /\ pc = "idle"
    /\ ~show_all_levels
    /\ mode' = "list"
    /\ start' = p
    /\ IF CacheLookup(p) # NoResult
       THEN /\ files' = CacheLookup(p)
            /\ shown' = ResultShown(CacheLookup(p))
            /\ pc' = "returned"
            /\ log' = <<>>
            /\ resp' = NoData
            /\ UNCHANGED cache
       ELSE \E status \in Statuses :
            /\ log' = <<[path |-> p, status |-> status]>>
            /\ IF Raises(status)
               THEN /\ pc' = "error"
                    /\ shown' = ErrorShown(status)
                    /\ files' = NoFiles
                    /\ resp' = NoData
                    /\ UNCHANGED cache
               ELSE /\ pc' = "returned"
                    /\ resp' = Json(p)
                    /\ files' = filter_ppt_files(AsList(Json(p)))
                    /\ shown' = ResultShown(files')
                    /\ cache' = [cache EXCEPT ![p] = files']
    /\ UNCHANGED <<listing, stack, visited, collected>>
    /\ first' = IF pc' = "returned" /\ first[p] = NoResult
                THEN [first EXCEPT ![p] = files'] ELSE first
    /\ UNCHANGED sessionvars

\* main, show_all_levels checked: walk_and_collect_ppts is entered
StartWalk(p) ==
    /\ pc = "idle"
    /\ show_all_levels
    /\ pc' = "walking"
    /\ mode' = "walk"
    /\ start' = p
    /\ stack' = <<p>>
    /\ visited' = {}
    /\ collected' = <<>>
    /\ log' = <<>>
    /\ resp' = NoData
    /\ UNCHANGED <<listing, cache, files, shown>>
    /\ UNCHANGED <<first, sessionvars>>

\* one iteration of "while stack"
WalkStep ==
    /\ pc = "walking"
    /\ stack # <<>>
    /\ LET current == stack[Len(stack)]
           popped == SubSeq(stack, 1, Len(stack) - 1)
       IN \E status \in Statuses :
          /\ log' = Append(log, [path |-> current, status |-> status])
          /\ IF SkipsMissing(status)
             THEN /\ stack' = popped
                  /\ UNCHANGED <<visited, collected, pc, files, shown, resp>>
             ELSE IF Raises(status)
             THEN /\ pc' = "error"
                  /\ shown' = ErrorShown(status)
                  /\ stack' = popped
                  /\ UNCHANGED <<visited, collected, files, resp>>
             ELSE LET w == ForEntries(AsList(Json(current)),
                                      WalkState(popped, visited, collected))
                  IN /\ stack' = w.stack
                     /\ visited' = w.visited
                     /\ collected' = w.collected
                     /\ resp' = Json(current)
                     /\ UNCHANGED <<pc, files, shown>>
    /\ UNCHANGED <<listing, cache, mode, start>>
    /\ UNCHANGED <<first, sessionvars>>

\* the stack is empty: "return collected", and main shows the result
WalkReturn ==
    /\ pc = "walking"
    /\ stack = <<>>
    /\ pc' = "returned"
    /\ files' = collected
    /\ shown' = ResultShown(collected)
    /\ UNCHANGED <<listing, cache, mode, start, stack, visited, collected, log, resp>>
    /\ UNCHANGED <<first, sessionvars>>

\* the script run ends; its locals are gone, the cache stays
EndRun ==
    /\ pc \in {"returned", "error"}
    /\ pc' = "idle"
    /\ mode' = "none"
    /\ start' = ""
    /\ stack' = <<>>
    /\ visited' = {}
    /\ collected' = <<>>
    /\ log' = <<>>
    /\ resp' = NoData
    /\ files' = NoFiles
    /\ shown' = "none"
    /\ UNCHANGED <<listing, cache>>
    /\ UNCHANGED <<first, sessionvars>>

Next ==
    \/ \E d \in Dirs, e \in Entries : RemoteAdd(d, e)
    \/ \E p \in Paths : ListCall(p)
    \/ \E p \in Paths : StartWalk(p)
    \/ WalkStep
    \/ WalkReturn
    \/ EndRun

Spec == Init /\ [][Next]_vars

----------------------------------------------------------------------------
(* The URL parser on its own: a URL is written from its fields, then parsed *)

InitParse ==
    /\ listing = [d \in Dirs |-> <<>>]
    /\ cache = [p \in Paths |-> NoResult]
    /\ pc = "idle"
    /\ mode = "none"
    /\ start = ""
    /\ stack = <<>>
    /\ visited = {}
    /\ collected = <<>>
    /\ log = <<>>
    /\ resp = NoData
    /\ files = NoFiles
    /\ shown = "none"
    /\ show_all_levels = FALSE
    /\ first = [p \in Paths |-> NoResult]
    /\ given \in Given
    /\ url = TreeUrl(given)
    /\ parsed = "NotYet"

\* if github_url: parsed = parse_github_dir_url(github_url)
ParseUrl ==
    /\ parsed = "NotYet"
    /\ parsed' = parse_github_dir_url(url)
    /\ UNCHANGED <<listing, cache, pc, mode, start, stack, visited, collected, log,
                   resp, files, shown, show_all_levels, first, url, given>>

NextParse == ParseUrl

SpecParse == InitParse /\ [][NextParse]_vars

----------------------------------------------------------------------------
(* What the properties below speak of *)

RecognizedExts ==
    { <<".","p","p","t">>, <<".","p","p","t","x">>, <<".","p","p","t","m">>,
      <<".","p","o","t">>, <<".","p","o","t","x">>, <<".","p","p","s">>,
      <<".","p","p","s","x">> }

\* ext is a true suffix of name, letters compared without regard to case
HasSuffixNoCase(name, ext) ==
    /\ Len(name) >= Len(ext)
    /\ \A i \in 1..Len(ext) : LowerChar(name[Len(name) - Len(ext) + i]) = ext[i]

IsMatchingFile(e) ==
    e.type = "file" /\ \E ext \in RecognizedExts : HasSuffixNoCase(e.name, ext)

Listed(d) == {listing[d][i] : i \in 1..Len(listing[d])}

DirChildren(d) == {e.path : e \in {x \in Listed(d) : x.type = "dir"}}

\* the directories reachable from the paths S through dir-typed entries of the
\* directories in Through
RECURSIVE ReachableVia(_, _)
ReachableVia(S, Through) ==
    LET T == S \cup UNION {DirChildren(d) : d \in S \cap Through \cap Dirs}
    IN IF T = S THEN S ELSE ReachableVia(T, Through)

Requested == {log[i].path : i \in 1..Len(log)}
AnsweredOk == {log[i].path : i \in {j \in 1..Len(log) : log[j].status = 200}}
AllOk == \A i \in 1..Len(log) : log[i].status = 200

RecordsOf(s) == {s[i] : i \in 1..Len(s)}

\* the response as a sequence of entries, a single object being one entry
EntriesOf(data) == IF data.kind = "list" THEN data.value ELSE <<data.value>>

\* the distinct directory paths the remote lists
ListedDirPaths == UNION {DirChildren(d) : d \in Dirs}

WalkDone == mode = "walk" /\ pc = "returned"

----------------------------------------------------------------------------
\* C1: when every request succeeded and the recursive walk has returned, its
\* result holds every matching file of the start directory and of every
\* directory reachable from it through dir-typed entries, at any depth.
C1_RecursiveComplete ==
    (WalkDone /\ AllOk) =>
        \A d \in ReachableVia({start}, Dirs) \cap Dirs :
            \A e \in Listed(d) :
                IsMatchingFile(e) => FileRecord(e) \in RecordsOf(files)

\* a file three levels below the start directory has been found
C1_Witness ==
    /\ WalkDone /\ AllOk /\ start = ""
    /\ listing[""] = <<DirEntry(<<"s","u","b">>, "sub")>>
    /\ "sub/old.ppt" \in DirChildren("sub")
    /\ TalkPpt \in Listed("sub/old.ppt")
    /\ FileRecord(TalkPpt) \in RecordsOf(files)

\* C2: in one recursive walk each directory path is requested at most once and
\* each matching file is appended to the result at most once, also when a
\* directory lists an already-seen directory such as the start path.
C2_AtMostOnce ==
    mode = "walk" =>
        /\ \A i, j \in 1..Len(log) : i # j => log[i].path # log[j].path
        /\ \A i, j \in 1..Len(collected) : i # j => collected[i] # collected[j]

\* C3: in both modes, a listing whose first request is answered 404 ends in
\* the fatal not-found error and returns no result.
C3_First404Fatal ==
    (pc \in {"returned", "error"} /\ log # <<>> /\ log[1].status = 404) =>
        (pc = "error" /\ shown = "err_notfound" /\ files = NoFiles)

\* C4: a 404 for a subdirectory discovered mid-walk is skipped: the step keeps
\* the files collected so far and the rest of the stack and raises nothing,
\* and a walk that returns after such a 404 holds every matching file of every
\* directory reachable through the directories that answered.
C4_SkipKeeps ==
    (pc = "walking" /\ log # <<>> /\ Len(log') = Len(log) + 1
        /\ log'[Len(log')].status = 404) =>
            /\ collected' = collected
            /\ stack' = SubSeq(stack, 1, Len(stack) - 1)
            /\ pc' = "walking"
            /\ shown' = shown

C4_RestComplete ==
    (WalkDone /\ \A i \in 1..Len(log) : log[i].status \in {200, 404}) =>
        \A d \in ReachableVia({start}, AnsweredOk) :
            /\ d \in Requested
            /\ d \in AnsweredOk \cap Dirs =>
                 \A e \in Listed(d) :
                    IsMatchingFile(e) => FileRecord(e) \in RecordsOf(files)

C4_Missing404Skipped == []C4_RestComplete /\ [][C4_SkipKeeps]_vars

\* a subdirectory answered 404 and a directory visited after it gave its file
C4_Witness ==
    /\ WalkDone
    /\ \E i, j \in 2..Len(log) :
          /\ i < j
          /\ log[i].status = 404
          /\ log[j].status = 200
          /\ log[j].path = "sub/old.ppt"
    /\ FileRecord(TalkPpt) \in RecordsOf(files)

\* C5: the first response of a recursive walk that is neither a success nor a
\* 404 ends the walk in an error: it is the last request issued, and the
\* caller gets an error message and no list of files.
C5_FatalAborts ==
    mode = "walk" =>
        \A i \in 1..Len(log) :
            log[i].status \notin {200, 404} =>
                /\ i = Len(log)
                /\ pc = "error"
                /\ files = NoFiles
                /\ shown = IF log[i].status = 403 THEN "err_forbidden" ELSE "err_api"

\* the walk stopped on a 403 with files collected and paths left on the stack
C5_Witness ==
    /\ mode = "walk" /\ pc = "error"
    /\ log[Len(log)].status = 403
    /\ collected # <<>>
    /\ stack # <<>>

\* C6: in both modes every record of the accumulated and of the returned
\* result comes from a file-typed entry whose name has, without regard to
\* case, one of the seven extensions as a true suffix.
C6_OnlyMatchingFiles ==
    \A r \in RecordsOf(collected) \cup
             (IF files = NoFiles THEN {} ELSE RecordsOf(files)) :
        \E e \in Entries : IsMatchingFile(e) /\ FileRecord(e) = r

\* DECK.PPTX was returned from below a directory named old.ppt, and
\* deck.pptxx, which the walk also saw, was not
C6_Witness ==
    /\ pc = "returned"
    /\ DeckXX \in Listed("")
    /\ "" \in AnsweredOk
    /\ "sub/old.ppt" \in DirChildren("")
    /\ FileRecord(DeckUpper) \in RecordsOf(files)

\* C7: a single-level listing that received a response returns exactly the
\* matching files among the entries of that response, in the order of the
\* response, a single object counting as one entry; it requests no path but
\* the start path.
C7_SingleLevel ==
    mode = "list" =>
        /\ \A i \in 1..Len(log) : log[i].path = start
        /\ (pc = "returned" /\ log # <<>>) =>
              LET kept == SelectSeq(EntriesOf(resp), IsMatchingFile)
              IN files = [i \in 1..Len(kept) |-> FileRecord(kept[i])]

\* two matching files around a directory entry were returned in API order
C7_Witness ==
    /\ mode = "list" /\ pc = "returned" /\ log # <<>>
    /\ Len(files) = 2
    /\ \E e \in RecordsOf(EntriesOf(resp)) : e.type = "dir"

C9_Returned ==
    (mode = "list" /\ pc = "returned") =>
        /\ files = first[start]
        /\ Len(log) <= 1

C9_RequestIffNew ==
    (pc = "idle" /\ mode' = "list") =>
        /\ first[start'] # NoResult => log' = <<>> /\ pc' = "returned"
        /\ first[start'] = NoResult => Len(log') = 1 /\ log'[1].path = start'

C10_Bounded ==
    mode = "walk" =>
        /\ Len(log) <= Cardinality(ListedDirPaths) + 1
        /\ pc = "returned" => stack = <<>>
        /\ pc = "walking" => ENABLED (WalkStep \/ WalkReturn)

C10_Progress ==
    pc = "walking" =>
        \/ pc' \in {"returned", "error"}
        \/ pc' = "walking" /\ Len(log') = Len(log) + 1

C10_Terminates == []C10_Bounded /\ [][C10_Progress]_vars

\* a directory listing the start path: the walk still ended, at the bound
C10_Witness ==
    /\ WalkDone
    /\ start \in ListedDirPaths
    /\ Len(log) = Cardinality(ListedDirPaths) + 1
    /\ Cardinality(ListedDirPaths) >= 2

\* C8: the tree URL written from owner, repo, branch and path segments parses
\* back to exactly these four, the path being the segments joined with "/".
C8_RoundTrip ==
    (parsed # "NotYet" /\ given.host = GithubCom) =>
        parsed = <<given.owner, given.repo, given.branch, Join(given.segs, "/")>>

====
